---- MODULE Spec2Model ----
(***************************************************************************)
(* Model of custom_components/aguaiot/climate.py: the AguaIOTHeatingDevice *)
(* adapter over one device handle of the py_agua_iot client library.       *)
(*                                                                         *)
(* The handle is the only state.  The host framework calls one adapter     *)
(* method at a time (pc = "idle" -> "returned"); the method's observable   *)
(* outcome (handle calls made, messages logged, value returned, exception  *)
(* that left the method) is kept until the host takes it (Return).         *)
(*                                                                         *)
(* Python values: None is <<>>, a present value v is <<v>>; a str is the   *)
(* sequence of its characters.                                             *)
(***************************************************************************)
EXTENDS Integers, Sequences, FiniteSets, TLC

VARIABLES device, pc, op, arg, fault, calls, log, raised, ret

vars == <<device, pc, op, arg, fault, calls, log, raised, ret>>

None == <<>>
Some(v) == <<v>>

\* ---------------------------------------------------------------- bounds
\* temperatures are 0..MaxTemp, status codes 0..MaxStatus, the power
\* setpoint 0..MaxPower, fan-mode strings have at most MaxLen characters,
\* the power limits range over -LowPower..HighPower
MaxTemp == 1
MaxStatus == 7
MaxPower == 2
MaxLen == 2
LowPower == 2
HighPower == 11

Temps == {None} \cup {Some(t) : t \in 0..MaxTemp}
Statuses == {None} \cup {Some(s) : s \in 0..MaxStatus}
Powers == 0..MaxPower
PowerLimits == (0 - LowPower)..HighPower

\* characters of a fan-mode string: decimal digits, a letter, a sign, and
\* SUPERSCRIPT TWO (U+00B2), which str.isdigit accepts and int rejects
Decimals == {"0", "1", "2", "3", "4", "5", "6", "7", "8", "9"}
Chars == {"0", "1", "2", "a", "-", "sup2"}

RECURSIVE StringsUpTo(_)
StringsUpTo(n) ==
    IF n = 0 THEN {<<>>}
    ELSE LET shorter == StringsUpTo(n - 1)
         IN  shorter \cup {Append(s, c) : s \in {t \in shorter : Len(t) = n - 1}, c \in Chars}

FanStrings == StringsUpTo(MaxLen)

\* the fan-mode inputs of the full adapter specification: absent, empty,
\* one digit, a letter, a superscript digit, two digits
FanSamples ==
    {None, Some(<<>>), Some(<<"2">>), Some(<<"a">>), Some(<<"sup2">>), Some(<<"0", "1">>)}

\* the status values of the full adapter specification: absent, off, running
StatusSamples == {None, Some(0), Some(1)}

HVAC_MODE_HEAT == "heat"
HVAC_MODE_OFF == "off"
Modes == {HVAC_MODE_HEAT, HVAC_MODE_OFF, "cool", "auto"}

\* ------------------------------------------------------------ exceptions
VendorErrors == {"UnauthorizedError", "ConnectionError", "AguaIOTError"}
SetterFaults == {"ok", "ValueError"} \cup VendorErrors
RemoteFaults == {"ok"} \cup VendorErrors

\* isinstance(e, cls) for the classes climate.py names: AguaIOTError is
\* py_agua_iot.Error, the base of UnauthorizedError and ConnectionError
IsInstance(e, cls) ==
    \/ e = cls
    \/ cls = "AguaIOTError" /\ e \in {"UnauthorizedError", "ConnectionError"}

\* ------------------------------------------------------------ the handle
Devices ==
    [air_temperature : Temps, water_temperature : Temps,
     set_air_temperature : Temps, set_water_temperature : Temps,
     status : StatusSamples, set_power : Powers,
     min_power : {1}, max_power : {MaxPower}]

\* one interaction with the handle: a method call or an attribute write
Call(m, v) == [m |-> m, v |-> v]

\* outcome of an adapter method
Outcome(d, c, l, e, r) == [device |-> d, calls |-> c, log |-> l, raised |-> e, ret |-> r]

\* ------------------------------------------------------- property reads
\* variant: "if not temp" in place of "if temp is None" (0 is falsy)
current_temperature_falsy(d) ==
    IF d.air_temperature \in {None, Some(0)} THEN d.water_temperature
    ELSE d.air_temperature

current_temperature(d) ==
    IF d.air_temperature = None THEN d.water_temperature ELSE d.air_temperature

target_temperature(d) ==
    IF d.set_air_temperature = None THEN d.set_water_temperature
    ELSE d.set_air_temperature

\* variant: status 6 not treated as off
hvac_mode_zero_only(d) ==
    IF d.status # Some(0) THEN HVAC_MODE_HEAT ELSE HVAC_MODE_OFF

hvac_mode(d) ==
    IF d.status \notin {Some(0), Some(6)} THEN HVAC_MODE_HEAT ELSE HVAC_MODE_OFF

hvac_modes == <<HVAC_MODE_HEAT, HVAC_MODE_OFF>>

DigitChars == <<"0", "1", "2", "3", "4", "5", "6", "7", "8", "9">>

RECURSIVE StrNat(_)
StrNat(n) ==
    IF n < 10 THEN <<DigitChars[n + 1]>>
    ELSE Append(StrNat(n \div 10), DigitChars[(n % 10) + 1])

\* str(int)
str(n) == IF n < 0 THEN <<"-">> \o StrNat(0 - n) ELSE StrNat(n)

fan_mode(d) == str(d.set_power)

\* for x in range(min_power, max_power + 1): fan_modes.append(str(x))
RECURSIVE FanLoop(_, _, _)
FanLoop(x, stop, acc) ==
    IF x >= stop THEN acc ELSE FanLoop(x + 1, stop, Append(acc, str(x)))

\* variant: range(min_power, max_power), the upper end left out
fan_modes_exclusive(d) == FanLoop(d.min_power, d.max_power, <<>>)

fan_modes(d) == FanLoop(d.min_power, d.max_power + 1, <<>>)

\* ---------------------------------------------------- the handle's side
\* the handle after a successful attribute write
Store(d, field, v) == [d EXCEPT ![field] = v]

\* what a successful refresh can leave in the handle: new sensor readings
\* and status, or new setpoints as the cloud reports them
Refreshed(d) ==
    {[d EXCEPT !.air_temperature = a, !.water_temperature = w, !.status = s] :
        a \in Temps, w \in Temps, s \in StatusSamples}
    \cup
    {[d EXCEPT !.set_air_temperature = a, !.set_water_temperature = w, !.set_power = p] :
        a \in Temps, w \in Temps, p \in Powers}

\* ------------------------------------------------------------- commands
\* try: <handle call c, raising f unless f = "ok">
\* except AguaIOTError as err: _LOGGER.error(msg, err)
\* d2 is the handle after the call when it succeeds; a failed call leaves
\* the handle as it was
NoOp(d) == Outcome(d, <<>>, <<>>, "none", None)

\* variant: a caught error is answered by calling the handle once more
Guarded_retry(d, d2, c, f, classes, msg) ==
    IF f = "ok" THEN [device |-> d2, calls |-> <<c>>, log |-> <<>>, raised |-> "none", ret |-> None]
    ELSE IF \E cls \in classes : IsInstance(f, cls)
         THEN [device |-> d, calls |-> <<c, c>>, log |-> <<msg, msg>>, raised |-> "none", ret |-> None]
         ELSE [device |-> d, calls |-> <<c>>, log |-> <<>>, raised |-> f, ret |-> None]

Guarded(d, d2, c, f, classes, msg) ==
    IF f = "ok" THEN Outcome(d2, <<c>>, <<>>, "none", None)
    ELSE IF \E cls \in classes : IsInstance(f, cls)
         THEN Outcome(d, <<c>>, <<msg>>, "none", None)
         ELSE Outcome(d, <<c>>, <<>>, f, None)

turn_off(d, f) ==
    Guarded(d, d, Call("turn_off", None), f, {"AguaIOTError"},
            "Failed to turn off device, error: %s")

turn_on(d, f) ==
    Guarded(d, d, Call("turn_on", None), f, {"AguaIOTError"},
            "Failed to turn on device, error: %s")

\* variant: the water pair is tried before the air pair
set_temperature_water_first(d, temperature, f) ==
    IF temperature = None THEN NoOp(d)
    ELSE IF d.water_temperature # None
         THEN Guarded(d, Store(d, "set_water_temperature", temperature),
                      Call("set_water_temperature", temperature), f,
                      {"ValueError", "AguaIOTError"},
                      "Failed to set temperature, error: %s")
    ELSE IF d.air_temperature # None
         THEN Guarded(d, Store(d, "set_air_temperature", temperature),
                      Call("set_air_temperature", temperature), f,
                      {"ValueError", "AguaIOTError"},
                      "Failed to set temperature, error: %s")
    ELSE NoOp(d)

set_temperature(d, temperature, f) ==
    IF temperature = None THEN NoOp(d)
    ELSE IF d.air_temperature # None
         THEN Guarded(d, Store(d, "set_air_temperature", temperature),
                      Call("set_air_temperature", temperature), f,
                      {"ValueError", "AguaIOTError"},
                      "Failed to set temperature, error: %s")
    ELSE IF d.water_temperature # None
         THEN Guarded(d, Store(d, "set_water_temperature", temperature),
                      Call("set_water_temperature", temperature), f,
                      {"ValueError", "AguaIOTError"},
                      "Failed to set temperature, error: %s")
    ELSE NoOp(d)

\* str.isdigit(): non-empty and every character a digit; SUPERSCRIPT TWO
\* has the Unicode digit property
isdigit(s) == Len(s) >= 1 /\ \A i \in 1..Len(s) : s[i] \in Decimals \cup {"sup2"}

DigitValue(c) == CHOOSE k \in 0..9 : DigitChars[k + 1] = c

RECURSIVE DecimalValue(_)
DecimalValue(s) ==
    IF Len(s) = 0 THEN 0
    ELSE 10 * DecimalValue(SubSeq(s, 1, Len(s) - 1)) + DigitValue(s[Len(s)])

\* int(s) for a string that passed isdigit(): the value, or None where int
\* raises ValueError (a digit that is not a decimal digit)
int(s) ==
    IF \A i \in 1..Len(s) : s[i] \in Decimals THEN Some(DecimalValue(s)) ELSE None

\* variant: the guard without its "not": digit strings are dropped
set_fan_mode_inverted(d, fanmode, f) ==
    IF fanmode = None \/ isdigit(fanmode[1]) THEN NoOp(d)
    ELSE Outcome(d, <<>>, <<>>, "ValueError", None)

set_fan_mode(d, fanmode, f) ==
    IF fanmode = None \/ ~isdigit(fanmode[1]) THEN NoOp(d)
    ELSE LET n == int(fanmode[1])
         IN  IF n = None
             \* int() raised inside the try block; except AguaIOTError
             \* does not match a ValueError
             THEN Outcome(d, <<>>, <<>>, "ValueError", None)
             ELSE Guarded(d, Store(d, "set_power", n[1]), Call("set_power", n), f,
                          {"AguaIOTError"}, "Failed to set fan mode, error: %s")

\* variant: the two branches exchanged
set_hvac_mode_swapped(d, mode, f) ==
    IF mode = HVAC_MODE_OFF THEN turn_on(d, f)
    ELSE IF mode = HVAC_MODE_HEAT THEN turn_off(d, f)
    ELSE NoOp(d)

set_hvac_mode(d, mode, f) ==
    IF mode = HVAC_MODE_OFF THEN turn_off(d, f)
    ELSE IF mode = HVAC_MODE_HEAT THEN turn_on(d, f)
    ELSE NoOp(d)

\* variant: the except AguaIOTError clause placed first
update_generic_first(d, d2, f) ==
    LET c == <<Call("update", None)>>
    IN  IF f = "ok" THEN Outcome(d2, c, <<>>, "none", Some(TRUE))
        ELSE IF IsInstance(f, "AguaIOTError")
             THEN Outcome(d, c, <<"Failed to update %s (%s), error: %s">>, "none", Some(FALSE))
        ELSE Outcome(d, c, <<>>, f, None)

\* d2 is the handle as the refresh leaves it when it succeeds
update(d, d2, f) ==
    LET c == <<Call("update", None)>>
    IN  IF f = "ok" THEN Outcome(d2, c, <<>>, "none", Some(TRUE))
        ELSE IF IsInstance(f, "UnauthorizedError")
             THEN Outcome(d, c, <<"Wrong credentials for device %s (%s)">>, "none", Some(FALSE))
        ELSE IF IsInstance(f, "ConnectionError")
             THEN Outcome(d, c, <<"Connection to Agua IOT not possible">>, "none", Some(FALSE))
        ELSE IF IsInstance(f, "AguaIOTError")
             THEN Outcome(d, c, <<"Failed to update %s (%s), error: %s">>, "none", Some(FALSE))
        ELSE Outcome(d, c, <<>>, f, None)

\* -------------------------------------------------------------- actions
\* the host calls method name with argument a; the handle answers its call
\* (if the method makes one) with f
Invoke(name, a, f, out) ==
    /\ pc = "idle"
    /\ pc' = "returned"
    /\ op' = name
    /\ arg' = a
    /\ fault' = f
    /\ device' = out.device
    /\ calls' = out.calls
    /\ log' = out.log
    /\ raised' = out.raised
    /\ ret' = out.ret

Read(name, value) == Invoke(name, None, "ok", Outcome(device, <<>>, <<>>, "none", value))

TurnOff == \E f \in RemoteFaults : Invoke("turn_off", None, f, turn_off(device, f))

TurnOn == \E f \in RemoteFaults : Invoke("turn_on", None, f, turn_on(device, f))

SetTemperature ==
    \E t \in Temps, f \in SetterFaults :
        Invoke("set_temperature", t, f, set_temperature(device, t, f))

SetFanModeFrom(inputs) ==
    \E m \in inputs, f \in SetterFaults :
        Invoke("set_fan_mode", m, f, set_fan_mode(device, m, f))

SetFanMode == SetFanModeFrom(FanSamples)

SetFanModeAny == SetFanModeFrom({None} \cup {Some(s) : s \in FanStrings})

SetHvacMode ==
    \E m \in Modes, f \in RemoteFaults :
        Invoke("set_hvac_mode", Some(m), f, set_hvac_mode(device, m, f))

Update ==
    \/ \E d2 \in Refreshed(device) :
            Invoke("update", None, "ok", update(device, d2, "ok"))
    \/ \E f \in VendorErrors :
            Invoke("update", None, f, update(device, device, f))

GetCurrentTemperature == Read("current_temperature", current_temperature(device))

GetTargetTemperature == Read("target_temperature", target_temperature(device))

GetHvacMode == Read("hvac_mode", Some(hvac_mode(device)))

GetFanMode == Read("fan_mode", fan_mode(device))

GetFanModes == Read("fan_modes", fan_modes(device))

\* the method has returned (or raised) to the host, which calls again later
Return ==
    /\ pc = "returned"
    /\ pc' = "idle"
    /\ op' = "none"
    /\ arg' = None
    /\ fault' = "ok"
    /\ calls' = <<>>
    /\ log' = <<>>
    /\ raised' = "none"
    /\ ret' = None
    /\ UNCHANGED device

Idle ==
    /\ pc = "idle"
    /\ op = "none"
    /\ arg = None
    /\ fault = "ok"
    /\ calls = <<>>
    /\ log = <<>>
    /\ raised = "none"
    /\ ret = None

\* the adapter over any handle, as async_setup_entry creates it
Init == device \in Devices /\ Idle

Next ==
    \/ TurnOff
    \/ TurnOn
    \/ SetTemperature
    \/ SetFanMode
    \/ SetHvacMode
    \/ Update
    \/ GetCurrentTemperature
    \/ GetTargetTemperature
    \/ GetHvacMode
    \/ GetFanMode
    \/ GetFanModes
    \/ Return

Spec == Init /\ [][Next]_vars

\* set_fan_mode over every string of the bounded alphabet, on a handle
\* whose other fields are fixed
FanDevice ==
    [air_temperature |-> Some(0), water_temperature |-> None,
     set_air_temperature |-> Some(0), set_water_temperature |-> None,
     status |-> Some(0), set_power |-> 1, min_power |-> 1, max_power |-> MaxPower]

InitFan == device \in {[FanDevice EXCEPT !.set_power = p] : p \in Powers} /\ Idle

NextFan == SetFanModeAny \/ GetFanMode \/ Return

SpecFan == InitFan /\ [][NextFan]_vars

\* the on/off commands and hvac_mode over every status code
InitHvac ==
    /\ device \in {[FanDevice EXCEPT !.status = s, !.air_temperature = a] :
                      s \in Statuses, a \in Temps}
    /\ Idle

NextHvac == TurnOff \/ TurnOn \/ SetHvacMode \/ GetHvacMode \/ Return

SpecHvac == InitHvac /\ [][NextHvac]_vars

\* fan_modes over every pair of power limits
InitFanModes ==
    /\ device \in {[FanDevice EXCEPT !.min_power = lo, !.max_power = hi] :
                      lo \in PowerLimits, hi \in PowerLimits}
    /\ Idle

NextFanModes == GetFanModes \/ Return

SpecFanModes == InitFanModes /\ [][NextFanModes]_vars

\* ================================================================ claims
Returned(name) == pc = "returned" /\ op = name

\* the method made a handle call and the handle raised
HandleRaised == calls # <<>> /\ fault # "ok"

AdapterMethods ==
    {"turn_on", "turn_off", "set_temperature", "set_fan_mode", "set_hvac_mode", "update"}

\* C1: no exception crosses the adapter boundary: whatever error the handle
\* raises during turn_on, turn_off, set_temperature, set_fan_mode,
\* set_hvac_mode or update, the method returns normally.
C1_NoExceptionCrosses ==
    (pc = "returned" /\ op \in AdapterMethods) => raised = "none"

\* C2: update() calls the handle's refresh exactly once, returns True iff
\* the refresh raised nothing, and on each of the three failure kinds
\* returns False and logs exactly one message, a different one per kind.
C2_Message(f) ==
    CASE f = "UnauthorizedError" -> "Wrong credentials for device %s (%s)"
      [] f = "ConnectionError" -> "Connection to Agua IOT not possible"
      [] f = "AguaIOTError" -> "Failed to update %s (%s), error: %s"

C2_Update ==
    /\ \A f \in VendorErrors, g \in VendorErrors : f # g => C2_Message(f) # C2_Message(g)
    /\ Returned("update") =>
        /\ calls = <<Call("update", None)>>
        /\ raised = "none"
        /\ ret \in {Some(TRUE), Some(FALSE)}
        /\ (ret = Some(TRUE)) <=> (fault = "ok")
        /\ fault = "ok" => log = <<>>
        /\ fault # "ok" => log = <<C2_Message(fault)>>

C2_Witness ==
    /\ Returned("update")
    /\ fault = "UnauthorizedError"
    /\ ret = Some(FALSE)
    /\ log = <<"Wrong credentials for device %s (%s)">>

\* C3: set_temperature(value) writes nothing when value is absent; otherwise
\* it writes value to exactly one setpoint: set_air_temperature when
\* air_temperature is not None (also when water_temperature is set too),
\* else set_water_temperature when water_temperature is not None, else to
\* neither; no other handle field is written.
C3_Expected(d, v) ==
    IF v = None THEN <<>>
    ELSE IF d.air_temperature # None THEN <<Call("set_air_temperature", v)>>
    ELSE IF d.water_temperature # None THEN <<Call("set_water_temperature", v)>>
    ELSE <<>>

C3_SetTemperature ==
    [][(pc' = "returned" /\ op' = "set_temperature") =>
        /\ calls' = C3_Expected(device, arg')
        /\ \A k \in DOMAIN device :
              device'[k] # device[k] =>
                  /\ calls' = <<Call(k, arg')>>
                  /\ device'[k] = arg']_vars

C3_Witness ==
    /\ Returned("set_temperature")
    /\ device.air_temperature # None
    /\ device.water_temperature # None
    /\ arg = Some(1)
    /\ fault = "ok"
    /\ calls = <<Call("set_air_temperature", Some(1))>>
    /\ device.set_air_temperature = Some(1)

\* C4: set_fan_mode(value) writes nothing to set_power when value is None
\* or is not a non-negative integer string; for a non-negative integer
\* string it writes the corresponding integer to set_power, and writes no
\* other handle field.
C4_Digit(c) ==
    CASE c = "0" -> 0 [] c = "1" -> 1 [] c = "2" -> 2 [] c = "3" -> 3 [] c = "4" -> 4
      [] c = "5" -> 5 [] c = "6" -> 6 [] c = "7" -> 7 [] c = "8" -> 8 [] c = "9" -> 9

RECURSIVE C4_Horner(_, _)
C4_Horner(acc, s) ==
    IF s = <<>> THEN acc ELSE C4_Horner(10 * acc + C4_Digit(Head(s)), Tail(s))

C4_IsNatString(s) == s # <<>> /\ \A i \in 1..Len(s) : s[i] \in Decimals

C4_SetFanMode ==
    Returned("set_fan_mode") =>
        IF arg # None /\ C4_IsNatString(arg[1])
        THEN /\ calls = <<Call("set_power", Some(C4_Horner(0, arg[1])))>>
             /\ fault = "ok" => device.set_power = C4_Horner(0, arg[1])
        ELSE calls = <<>>

C4_Witness ==
    /\ Returned("set_fan_mode")
    /\ arg = Some(<<"2">>)
    /\ fault = "ok"
    /\ calls = <<Call("set_power", Some(2))>>
    /\ device.set_power = 2

\* C5: set_hvac_mode(mode) calls the handle's turn_off exactly once and
\* never turn_on when mode is off, turn_on exactly once and never turn_off
\* when mode is heat, and for any other mode calls neither and changes
\* nothing on the handle.
C5_SetHvacMode ==
    [][(pc' = "returned" /\ op' = "set_hvac_mode") =>
        /\ arg' = Some(HVAC_MODE_OFF) => calls' = <<Call("turn_off", None)>>
        /\ arg' = Some(HVAC_MODE_HEAT) => calls' = <<Call("turn_on", None)>>
        /\ arg' \notin {Some(HVAC_MODE_OFF), Some(HVAC_MODE_HEAT)} =>
              calls' = <<>> /\ device' = device]_vars

C5_Witness ==
    /\ Returned("set_hvac_mode")
    /\ arg = Some(HVAC_MODE_OFF)
    /\ calls = <<Call("turn_off", None)>>

\* C6: when the handle call made by turn_on, turn_off, set_temperature or
\* set_fan_mode raises a vendor error, target_temperature, fan_mode,
\* hvac_mode and current_temperature are the same after the command as
\* before it, and the failing call was attempted exactly once, with no
\* other call or write.
Exposed(d) ==
    <<target_temperature(d), fan_mode(d), hvac_mode(d), current_temperature(d)>>

C6_FailedCommand ==
    [][(/\ pc' = "returned"
        /\ op' \in {"turn_on", "turn_off", "set_temperature", "set_fan_mode"}
        /\ calls' # <<>>
        /\ fault' \in VendorErrors) =>
        /\ Len(calls') = 1
        /\ Exposed(device') = Exposed(device)
        /\ device' = device]_vars

C6_Witness ==
    /\ Returned("set_temperature")
    /\ fault = "ConnectionError"
    /\ Len(calls) = 1
    /\ log = <<"Failed to set temperature, error: %s">>

\* C7: current_temperature returns air_temperature whenever it is not None
\* (also when water_temperature is set), water_temperature when
\* air_temperature is None, and None only when both are None; the read
\* changes no handle field.
C7_CurrentTemperature ==
    [][(pc' = "returned" /\ op' = "current_temperature") =>
        /\ device.air_temperature # None => ret' = device.air_temperature
        /\ device.air_temperature = None => ret' = device.water_temperature
        /\ ret' = None <=>
              (device.air_temperature = None /\ device.water_temperature = None)
        /\ calls' = <<>>
        /\ device' = device]_vars

C7_Witness ==
    /\ Returned("current_temperature")
    /\ device.air_temperature = Some(0)
    /\ device.water_temperature = Some(1)
    /\ ret = Some(0)

\* C8: hvac_mode returns off exactly when the status is 0 or 6 and heat for
\* every other status, None included; the value is a member of hvac_modes.
C8_HvacMode ==
    Returned("hvac_mode") =>
        /\ (ret = Some("off")) <=> (device.status = Some(0) \/ device.status = Some(6))
        /\ (ret = Some("heat")) <=> ~(device.status = Some(0) \/ device.status = Some(6))
        /\ \E i \in 1..Len(hvac_modes) : ret = Some(hvac_modes[i])

C8_Witness ==
    /\ Returned("hvac_mode")
    /\ device.status = Some(6)
    /\ ret = Some("off")

\* C9: fan_modes returns, for min_power <= max_power, the decimal strings
\* of min_power, min_power + 1, ..., max_power in order (both ends
\* included, no duplicates, max_power - min_power + 1 of them), and the
\* empty sequence for min_power > max_power.
C9_IsDecimalOf(s, n) ==
    IF n < 0
    THEN /\ Len(s) >= 2
         /\ s[1] = "-"
         /\ C4_IsNatString(Tail(s))
         /\ s[2] # "0"
         /\ C4_Horner(0, Tail(s)) = 0 - n
    ELSE /\ C4_IsNatString(s)
         /\ (Len(s) > 1 => s[1] # "0")
         /\ C4_Horner(0, s) = n

C9_FanModes ==
    Returned("fan_modes") =>
        LET lo == device.min_power
            hi == device.max_power
        IN  /\ lo > hi => ret = <<>>
            /\ lo <= hi =>
                  /\ Len(ret) = hi - lo + 1
                  /\ \A i \in 1..Len(ret) : C9_IsDecimalOf(ret[i], lo + i - 1)
                  /\ \A i \in 1..Len(ret), j \in 1..Len(ret) : i # j => ret[i] # ret[j]
            /\ (lo = 1 /\ hi = 3) => ret = << <<"1">>, <<"2">>, <<"3">> >>

C9_Witness ==
    /\ Returned("fan_modes")
    /\ device.min_power = 1
    /\ device.max_power = 3
    /\ ret = << <<"1">>, <<"2">>, <<"3">> >>

\* C10: in every handle state with air_temperature or water_temperature not
\* None, after set_temperature(v) with v present completes without a handle
\* error, target_temperature returns v, whatever set_air_temperature and
\* set_water_temperature held before.
C10_ReadWriteAgree ==
    (/\ Returned("set_temperature")
     /\ arg # None
     /\ (device.air_temperature # None \/ device.water_temperature # None)
     /\ fault = "ok"
     /\ raised = "none") =>
        target_temperature(device) = arg

====
